---- MODULE Spec2Model ----
(***************************************************************************)
(* Model of main.py, the FastMCP resume parsing tool: the tool entry point *)
(* parse_resume, the payload search _find_text_payload, the normalizer     *)
(* _ensure_shape and the Gemini client _call_gemini.                       *)
(*                                                                         *)
(* Python values are tagged records; a Python str is a sequence of         *)
(* one-character strings, so that json.loads, str(), strip(), find() and   *)
(* slicing are computed character by character.  A dict is the sequence of *)
(* its <<key, value>> pairs in insertion order, keys being Python strs.    *)
(***************************************************************************)
EXTENDS Integers, Sequences, FiniteSets, TLC

(***************************************************************************)
(* Bounds of the model.                                                    *)
(***************************************************************************)
\* longest list drawn as the value of a top-level field or of tech
MaxLen == 2
\* longest run of prose drawn before and after the body of a model reply
MaxProse == 1

(***************************************************************************)
(* Python values.                                                          *)
(***************************************************************************)
PyNone == [t |-> "NoneType"]
PyBool(b) == [t |-> "bool", b |-> b]
PyInt(n) == [t |-> "int", n |-> n]
PyStr(s) == [t |-> "str", s |-> s]
PyList(l) == [t |-> "list", l |-> l]
PyDict(d) == [t |-> "dict", d |-> d]

isinstance(v, type) == v.t = type

\* bool(v): the truth value Python's `or`, `if` and `not` use
Truthy(v) ==
    CASE v.t = "NoneType" -> FALSE
      [] v.t = "bool" -> v.b
      [] v.t = "int" -> v.n # 0
      [] v.t = "str" -> v.s # <<>>
      [] v.t = "list" -> v.l # <<>>
      [] v.t = "dict" -> v.d # <<>>

\* a or b
Or(a, b) == IF Truthy(a) THEN a ELSE b

\* key in obj (obj a dict)
HasKey(obj, key) == \E i \in 1..Len(obj.d) : obj.d[i][1] = key

\* obj.get(key, default)
get(obj, key, default) ==
    IF HasKey(obj, key)
    THEN obj.d[CHOOSE i \in 1..Len(obj.d) : obj.d[i][1] = key][2]
    ELSE default

\* d[key] = value: an existing key keeps its position, a new one is appended
DictSet(d, key, value) ==
    IF \E i \in 1..Len(d) : d[i][1] = key
    THEN [i \in 1..Len(d) |-> IF d[i][1] = key THEN <<key, value>> ELSE d[i]]
    ELSE Append(d, <<key, value>>)

(***************************************************************************)
(* Characters and str methods.                                             *)
(***************************************************************************)
\* the characters str.strip() removes and json skips between tokens
Whitespace == {" ", "\n", "\t", "\r"}
Digits == <<"0", "1", "2", "3", "4", "5", "6", "7", "8", "9">>
DigitSet == {Digits[i] : i \in 1..10}
DigitValue(c) == (CHOOSE i \in 1..10 : Digits[i] = c) - 1

RECURSIVE lstrip(_)
\* s.lstrip()
lstrip(s) == IF s # <<>> /\ Head(s) \in Whitespace THEN lstrip(Tail(s)) ELSE s

RECURSIVE rstrip(_)
\* s.rstrip()
rstrip(s) ==
    IF s # <<>> /\ s[Len(s)] \in Whitespace THEN rstrip(SubSeq(s, 1, Len(s) - 1))
    ELSE s

\* s.strip()
strip(s) == rstrip(lstrip(s))

RECURSIVE IndexFrom(_, _, _)
\* the first 1-based index >= i of s that holds c, or 0
IndexFrom(s, c, i) ==
    IF i > Len(s) THEN 0 ELSE IF s[i] = c THEN i ELSE IndexFrom(s, c, i + 1)

RECURSIVE IndexBefore(_, _, _)
\* the last 1-based index <= i of s that holds c, or 0
IndexBefore(s, c, i) ==
    IF i < 1 THEN 0 ELSE IF s[i] = c THEN i ELSE IndexBefore(s, c, i - 1)

\* s.find(c) for a one-character c: 0-based index of the first c, or -1
find(s, c) == IndexFrom(s, c, 1) - 1

\* s.rfind(c) for a one-character c: 0-based index of the last c, or -1
rfind(s, c) == IndexBefore(s, c, Len(s)) - 1

\* s[start : stop] for 0 <= start, 0 <= stop
Slice(s, start, stop) == SubSeq(s, start + 1, IF stop > Len(s) THEN Len(s) ELSE stop)

RECURSIVE IntDigits(_)
\* str(n) for an int n >= 0
IntDigits(n) ==
    IF n < 10 THEN <<Digits[n + 1]>>
    ELSE IntDigits(n \div 10) \o <<Digits[(n % 10) + 1]>>

RECURSIVE repr(_)
RECURSIVE ReprItems(_)
RECURSIVE ReprPairs(_)
\* repr(v); the strs of the model hold no quote and no backslash, so repr of
\* a str is the str between single quotes
repr(v) ==
    CASE v.t = "NoneType" -> <<"N", "o", "n", "e">>
      [] v.t = "bool" -> IF v.b THEN <<"T", "r", "u", "e">>
                         ELSE <<"F", "a", "l", "s", "e">>
      [] v.t = "int" -> IntDigits(v.n)
      [] v.t = "str" -> <<"'">> \o v.s \o <<"'">>
      [] v.t = "list" -> <<"[">> \o ReprItems(v.l) \o <<"]">>
      [] v.t = "dict" -> <<"{">> \o ReprPairs(v.d) \o <<"}">>
ReprItems(l) ==
    IF l = <<>> THEN <<>>
    ELSE repr(Head(l)) \o (IF Len(l) > 1 THEN <<",", " ">> ELSE <<>>)
         \o ReprItems(Tail(l))
ReprPairs(d) ==
    IF d = <<>> THEN <<>>
    ELSE repr(PyStr(Head(d)[1])) \o <<":", " ">> \o repr(Head(d)[2])
         \o (IF Len(d) > 1 THEN <<",", " ">> ELSE <<>>) \o ReprPairs(Tail(d))

str_as_repr(v) == PyStr(repr(v))
\* str(v): a str is returned as it is, any other value by its repr
str(v) == IF v.t = "str" THEN v ELSE PyStr(repr(v))

(***************************************************************************)
(* json.loads and json.dumps, on the JSON the model draws: null, true,     *)
(* false, unsigned integers, strings without escapes, arrays and objects.  *)
(* No text of the model holds a backslash, a sign, a fraction, an exponent *)
(* or the words NaN and Infinity, so the decoder below is the library's    *)
(* decoder on every text it is given.                                      *)
(***************************************************************************)
\* a decoding step: ok, the value decoded, and the 1-based index after it
JsonFail == [ok |-> FALSE, v |-> PyNone, i |-> 0]
JsonOk(v, i) == [ok |-> TRUE, v |-> v, i |-> i]

RECURSIVE SkipWhitespace(_, _)
\* the first index >= i of s that holds no whitespace (Len(s) + 1 if none)
SkipWhitespace(s, i) ==
    IF i <= Len(s) /\ s[i] \in Whitespace THEN SkipWhitespace(s, i + 1) ELSE i

\* s[i : i + len(word)] == word
StartsWith(s, i, word) ==
    /\ i + Len(word) - 1 <= Len(s)
    /\ SubSeq(s, i, i + Len(word) - 1) = word

\* a string literal opening at s[i] = '"': it ends at the next '"', and a raw
\* control character inside it is an error (strict mode)
JsonString(s, i) ==
    LET j == IndexFrom(s, "\"", i + 1)
    IN  IF j = 0 THEN JsonFail
        ELSE LET body == SubSeq(s, i + 1, j - 1)
             IN  IF \E k \in 1..Len(body) : body[k] \in {"\n", "\t", "\r"}
                 THEN JsonFail
                 ELSE JsonOk(PyStr(body), j + 1)

RECURSIVE DigitsEnd(_, _)
\* the first index >= i of s that holds no digit (Len(s) + 1 if none)
DigitsEnd(s, i) ==
    IF i <= Len(s) /\ s[i] \in DigitSet THEN DigitsEnd(s, i + 1) ELSE i

RECURSIVE NumberValue(_)
NumberValue(digits) ==
    IF digits = <<>> THEN 0
    ELSE 10 * NumberValue(SubSeq(digits, 1, Len(digits) - 1))
         + DigitValue(digits[Len(digits)])

\* an integer opening at the digit s[i]: "0" alone, or a run of digits that
\* does not open with "0"
JsonNumber(s, i) ==
    IF s[i] = "0" THEN JsonOk(PyInt(0), i + 1)
    ELSE LET j == DigitsEnd(s, i + 1)
         IN  JsonOk(PyInt(NumberValue(SubSeq(s, i, j - 1))), j)

RECURSIVE JsonValue(_, _)
RECURSIVE JsonArrayItems(_, _, _)
RECURSIVE JsonObjectPairs(_, _, _)
\* the value that opens at s[i]
JsonValue(s, i) ==
    IF i > Len(s) THEN JsonFail
    ELSE CASE s[i] = "\"" -> JsonString(s, i)
           [] s[i] = "{" ->
                LET j == SkipWhitespace(s, i + 1)
                IN  IF j <= Len(s) /\ s[j] = "}" THEN JsonOk(PyDict(<<>>), j + 1)
                    ELSE JsonObjectPairs(s, j, <<>>)
           [] s[i] = "[" ->
                LET j == SkipWhitespace(s, i + 1)
                IN  IF j <= Len(s) /\ s[j] = "]" THEN JsonOk(PyList(<<>>), j + 1)
                    ELSE JsonArrayItems(s, j, <<>>)
           [] s[i] = "n" /\ StartsWith(s, i, <<"n", "u", "l", "l">>) ->
                JsonOk(PyNone, i + 4)
           [] s[i] = "t" /\ StartsWith(s, i, <<"t", "r", "u", "e">>) ->
                JsonOk(PyBool(TRUE), i + 4)
           [] s[i] = "f" /\ StartsWith(s, i, <<"f", "a", "l", "s", "e">>) ->
                JsonOk(PyBool(FALSE), i + 5)
           [] s[i] \in DigitSet -> JsonNumber(s, i)
           [] OTHER -> JsonFail
\* the items of an array from s[i] on, after those of acc: value, then "," or "]"
JsonArrayItems(s, i, acc) ==
    LET item == JsonValue(s, i)
    IN  IF ~item.ok THEN JsonFail
        ELSE LET j == SkipWhitespace(s, item.i)
             IN  IF j > Len(s) THEN JsonFail
                 ELSE IF s[j] = "]" THEN JsonOk(PyList(Append(acc, item.v)), j + 1)
                 ELSE IF s[j] = ","
                      THEN JsonArrayItems(s, SkipWhitespace(s, j + 1),
                                          Append(acc, item.v))
                 ELSE JsonFail
\* the pairs of an object from s[i] on, after those of acc: a string key, ":",
\* a value, then "," or "}"; a repeated key keeps its last value
JsonObjectPairs(s, i, acc) ==
    IF i > Len(s) \/ s[i] # "\"" THEN JsonFail
    ELSE LET key == JsonString(s, i)
         IN  IF ~key.ok THEN JsonFail
             ELSE LET c == SkipWhitespace(s, key.i)
                  IN  IF c > Len(s) \/ s[c] # ":" THEN JsonFail
                      ELSE LET val == JsonValue(s, SkipWhitespace(s, c + 1))
                           IN  IF ~val.ok THEN JsonFail
                               ELSE LET j == SkipWhitespace(s, val.i)
                                        pairs == DictSet(acc, key.v.s, val.v)
                                    IN  IF j > Len(s) THEN JsonFail
                                        ELSE IF s[j] = "}"
                                             THEN JsonOk(PyDict(pairs), j + 1)
                                        ELSE IF s[j] = ","
                                             THEN JsonObjectPairs(
                                                      s, SkipWhitespace(s, j + 1), pairs)
                                        ELSE JsonFail

\* json.loads(s): one value between optional whitespace and nothing else;
\* ok is FALSE where the library raises JSONDecodeError
json_loads(s) ==
    LET r == JsonValue(s, SkipWhitespace(s, 1))
    IN  IF r.ok /\ SkipWhitespace(s, r.i) = Len(s) + 1 THEN r ELSE JsonFail

RECURSIVE json_dumps(_)
RECURSIVE DumpItems(_)
RECURSIVE DumpPairs(_)
\* json.dumps(v) with the default separators ", " and ": "
json_dumps(v) ==
    CASE v.t = "NoneType" -> <<"n", "u", "l", "l">>
      [] v.t = "bool" -> IF v.b THEN <<"t", "r", "u", "e">>
                         ELSE <<"f", "a", "l", "s", "e">>
      [] v.t = "int" -> IntDigits(v.n)
      [] v.t = "str" -> <<"\"">> \o v.s \o <<"\"">>
      [] v.t = "list" -> <<"[">> \o DumpItems(v.l) \o <<"]">>
      [] v.t = "dict" -> <<"{">> \o DumpPairs(v.d) \o <<"}">>
DumpItems(l) ==
    IF l = <<>> THEN <<>>
    ELSE json_dumps(Head(l)) \o (IF Len(l) > 1 THEN <<",", " ">> ELSE <<>>)
         \o DumpItems(Tail(l))
DumpPairs(d) ==
    IF d = <<>> THEN <<>>
    ELSE <<"\"">> \o Head(d)[1] \o <<"\"", ":", " ">> \o json_dumps(Head(d)[2])
         \o (IF Len(d) > 1 THEN <<",", " ">> ELSE <<>>) \o DumpPairs(Tail(d))

(***************************************************************************)
(* main.py                                                                 *)
(***************************************************************************)
\* _safe_json_loads(data): json.loads raises TypeError on a non-str and
\* JSONDecodeError on a text that is no JSON; both are caught
_safe_json_loads(data) ==
    IF data.t # "str" THEN PyNone
    ELSE LET r == json_loads(data.s) IN IF r.ok THEN r.v ELSE PyNone

\* the str literals of main.py
k_raw_text == <<"r", "a", "w", "_", "t", "e", "x", "t">>
k_text == <<"t", "e", "x", "t">>
k_resume == <<"r", "e", "s", "u", "m", "e">>
k_content == <<"c", "o", "n", "t", "e", "n", "t">>
k_skills == <<"s", "k", "i", "l", "l", "s">>
k_experience == <<"e", "x", "p", "e", "r", "i", "e", "n", "c", "e">>
k_education == <<"e", "d", "u", "c", "a", "t", "i", "o", "n">>
k_projects == <<"p", "r", "o", "j", "e", "c", "t", "s">>
k_company == <<"c", "o", "m", "p", "a", "n", "y">>
k_role == <<"r", "o", "l", "e">>
k_years == <<"y", "e", "a", "r", "s">>
k_degree == <<"d", "e", "g", "r", "e", "e">>
k_institution == <<"i", "n", "s", "t", "i", "t", "u", "t", "i", "o", "n">>
k_name == <<"n", "a", "m", "e">>
k_description == <<"d", "e", "s", "c", "r", "i", "p", "t", "i", "o", "n">>
k_tech == <<"t", "e", "c", "h">>
k_missing == <<"m", "i", "s", "s", "i", "n", "g">>
k_gemini == <<"g", "e", "m", "i", "n", "i">>
input_prefix == <<"I", "N", "P", "U", "T", ":", "\n">>
output_suffix == <<"\n", "\n", "O", "U", "T", "P", "U", "T", " ", "J", "S", "O", "N", ":">>

\* what a call ends with: a returned value or a propagated exception; a try
\* body may also end by running off its end
Return(v) == [st |-> "return", val |-> v]
Raise(e) == [st |-> "raise", exc |-> e]
Fallthrough == [st |-> "fallthrough"]

\* an entry of the call log: the function entered and its argument
Event(fn, arg) == [fn |-> fn, arg |-> arg]

text_keys_resume_first == <<k_resume, k_content, k_raw_text, k_text>>
\* text_keys, in the order the search visits them
text_keys == <<k_raw_text, k_text, k_resume, k_content>>

RECURSIVE _find_text_payload(_)
RECURSIVE FindUnderKeys(_, _)
RECURSIVE FindInItems(_)
\* _find_text_payload(obj): the str found, or None
_find_text_payload(obj) == FindUnderKeys(obj, text_keys)
\* the `for key in text_keys` loop over the keys left to visit
FindUnderKeys(obj, keys) ==
    IF keys = <<>> THEN PyNone
    ELSE LET value == get(obj, Head(keys), PyNone)
             rest == FindUnderKeys(obj, Tail(keys))
         IN  IF isinstance(value, "str") /\ strip(value.s) # <<>> THEN value
             ELSE IF isinstance(value, "dict")
                  THEN LET nested == _find_text_payload(value)
                       IN  IF Truthy(nested) THEN nested ELSE rest
             ELSE IF isinstance(value, "list")
                  THEN LET found == FindInItems(value.l)
                       IN  IF found # PyNone THEN found ELSE rest
             ELSE rest
\* the `for item in value` loop over the items left to visit; None when the
\* loop ends without a return
FindInItems(items) ==
    IF items = <<>> THEN PyNone
    ELSE LET item == Head(items)
         IN  IF isinstance(item, "dict")
             THEN LET nested == _find_text_payload(item)
                  IN  IF Truthy(nested) THEN nested ELSE FindInItems(Tail(items))
             ELSE IF isinstance(item, "str") /\ strip(item.s) # <<>> THEN item
             ELSE FindInItems(Tail(items))

\* `for x in v` runs on a list, a str and a dict and raises TypeError on any
\* other value
Iterable(v) == v.t \in {"list", "str", "dict"}
\* the values `for x in v` binds x to: the items of a list, the characters of
\* a str, the keys of a dict
IterItems(v) ==
    CASE v.t = "list" -> v.l
      [] v.t = "str" -> [i \in 1..Len(v.s) |-> PyStr(<<v.s[i]>>)]
      [] v.t = "dict" -> [i \in 1..Len(v.d) |-> PyStr(v.d[i][1])]

\* [f(x) for x in items if isinstance(x, dict)], as the three loops build it
Mappings(items) == SelectSeq(items, LAMBDA x : isinstance(x, "dict"))

\* [str(x) for x in l]
StrAll(l) == [i \in 1..Len(l) |-> str(l[i])]

exp_entry_no_default(exp) ==
    PyDict(<< <<k_company, str(get(exp, k_company, PyNone))>>,
              <<k_role, str(get(exp, k_role, PyNone))>>,
              <<k_years, str(get(exp, k_years, PyNone))>> >>)
\* the entry appended to normalized_exp
exp_entry(exp) ==
    PyDict(<< <<k_company, str(get(exp, k_company, PyStr(<<>>)))>>,
              <<k_role, str(get(exp, k_role, PyStr(<<>>)))>>,
              <<k_years, str(get(exp, k_years, PyStr(<<>>)))>> >>)

\* the entry appended to normalized_edu
edu_entry(edu) ==
    PyDict(<< <<k_degree, str(get(edu, k_degree, PyStr(<<>>)))>>,
              <<k_institution, str(get(edu, k_institution, PyStr(<<>>)))>>,
              <<k_years, str(get(edu, k_years, PyStr(<<>>)))>> >>)

\* the entry appended to normalized_projects
proj_entry(proj) ==
    LET tech0 == Or(get(proj, k_tech, PyNone), PyList(<<>>))
        tech == IF ~isinstance(tech0, "list") THEN PyList(<<>>) ELSE tech0
    IN  PyDict(<< <<k_name, str(get(proj, k_name, PyStr(<<>>)))>>,
                  <<k_description, str(get(proj, k_description, PyStr(<<>>)))>>,
                  <<k_tech, PyList(StrAll(tech.l))>> >>)

\* _ensure_shape(obj), obj a dict: the record returned, or the TypeError of
\* the first `for` loop that meets a value it cannot iterate
_ensure_shape(obj) ==
    LET skills0 == Or(get(obj, k_skills, PyNone), PyList(<<>>))
        experience0 == Or(get(obj, k_experience, PyNone), PyList(<<>>))
        education0 == Or(get(obj, k_education, PyNone), PyList(<<>>))
        projects0 == Or(get(obj, k_projects, PyNone), PyList(<<>>))
        skills == IF ~isinstance(skills0, "list") THEN PyList(<<>>)
                  ELSE PyList(StrAll(skills0.l))
    IN  IF ~Iterable(experience0) THEN Raise("TypeError")
        ELSE IF ~Iterable(education0) THEN Raise("TypeError")
        ELSE IF ~Iterable(projects0) THEN Raise("TypeError")
        ELSE LET exps == Mappings(IterItems(experience0))
                 edus == Mappings(IterItems(education0))
                 projs == Mappings(IterItems(projects0))
             IN  Return(PyDict(<<
                     <<k_skills, skills>>,
                     <<k_experience,
                       PyList([i \in 1..Len(exps) |-> exp_entry(exps[i])])>>,
                     <<k_education,
                       PyList([i \in 1..Len(edus) |-> edu_entry(edus[i])])>>,
                     <<k_projects,
                       PyList([i \in 1..Len(projs) |-> proj_entry(projs[i])])>> >>))

\* {"missing": "gemini"}
missing_gemini == PyDict(<< <<k_missing, PyStr(k_gemini)>> >>)

\* what the google.generativeai package does during one call:
\*   setup_raises     genai.configure or genai.GenerativeModel raises
\*   generate_raises  model.generate_content raises
\*   no_text          the response has no text attribute
\*   text_raises      reading response.text raises
\*   text             response.text is the str `text`
Genai(kind, text) == [kind |-> kind, text |-> text]

\* os.getenv("GEMINI_API_KEY") or os.getenv("GOOGLE_API_KEY"); a variable
\* that is not set reads as None
api_key(env) == Or(env.GEMINI_API_KEY, env.GOOGLE_API_KEY)

\* f"INPUT:\n{raw_text}\n\nOUTPUT JSON:"
request(raw_text) == PyStr(input_prefix \o str(raw_text).s \o output_suffix)

\* the try block of _call_gemini: how it ends, and the calls it makes
try_block(raw_text, behaviour) ==
    IF behaviour.kind = "setup_raises"
    THEN [ret |-> Raise("Exception"), log |-> <<>>]
    ELSE LET sent == <<Event("generate_content", request(raw_text))>>
         IN  IF behaviour.kind \in {"generate_raises", "text_raises"}
             THEN [ret |-> Raise("Exception"), log |-> sent]
             ELSE LET text == IF behaviour.kind = "text" THEN behaviour.text ELSE <<>>
                      start == find(text, "{")
                      end == rfind(text, "}")
                  IN  IF start # -1 /\ end # -1 /\ end > start
                      THEN LET candidate == Slice(text, start, end + 1)
                               data == _safe_json_loads(PyStr(candidate))
                               loaded == sent \o <<Event("json.loads", PyStr(candidate))>>
                           IN  IF isinstance(data, "dict")
                               THEN [ret |-> _ensure_shape(data),
                                     log |-> loaded \o <<Event("_ensure_shape", data)>>]
                               ELSE [ret |-> Fallthrough, log |-> loaded]
                      ELSE [ret |-> Fallthrough, log |-> sent]

except_nothing(outcome) ==
    IF outcome.st = "fallthrough" THEN Return(missing_gemini) ELSE outcome
\* `except Exception` and the return that follows the try statement: a return
\* inside the block stands, anything else ends in {"missing": "gemini"}
except_Exception(outcome) ==
    IF outcome.st = "return" THEN outcome ELSE Return(missing_gemini)

\* _call_gemini(raw_text) under the environment env, with genai the imported
\* package ("module") or None ("None")
_call_gemini(raw_text, env, genai_pkg, behaviour) ==
    LET entered == <<Event("_call_gemini", raw_text)>>
    IN  IF ~Truthy(api_key(env))
        THEN [ret |-> Return(missing_gemini), log |-> entered]
        ELSE IF genai_pkg = "None"
        THEN [ret |-> Return(missing_gemini), log |-> entered]
        ELSE LET block == try_block(raw_text, behaviour)
             IN  [ret |-> except_Exception(block.ret),
                  log |-> entered \o <<Event("genai.configure", PyNone)>> \o block.log]

is_None_never(raw_text) == FALSE
\* raw_text is None
is_None(raw_text) == raw_text = PyNone

has_all_structured_keys(parsed) ==
    \A key \in {k_skills, k_experience, k_education, k_projects} : HasKey(parsed, key)
\* structured_keys.intersection(parsed) is not empty
has_structured_key(parsed) ==
    \E key \in {k_skills, k_experience, k_education, k_projects} : HasKey(parsed, key)

\* the empty record parse_resume returns for None
empty_record ==
    PyDict(<< <<k_skills, PyList(<<>>)>>, <<k_experience, PyList(<<>>)>>,
              <<k_education, PyList(<<>>)>>, <<k_projects, PyList(<<>>)>> >>)

\* `return _call_gemini(arg)`: the call ends as the call of _call_gemini does
TailCall(arg) == [st |-> "tail_call", arg |-> arg]

\* parse_resume(raw_text) up to its return statement: the value returned or
\* the exception raised there, or the call of _call_gemini whose result is
\* returned; and the calls made on the way
parse_resume(raw_text) ==
    IF is_None(raw_text) THEN [ret |-> Return(empty_record), log |-> <<>>]
    ELSE LET parsed == _safe_json_loads(raw_text)
             loaded == <<Event("json.loads", raw_text)>>
         IN  IF isinstance(parsed, "dict")
             THEN LET text_payload == _find_text_payload(parsed)
                      searched == loaded \o <<Event("_find_text_payload", parsed)>>
                  IN  IF Truthy(text_payload)
                      THEN [ret |-> TailCall(text_payload), log |-> searched]
                      ELSE IF has_structured_key(parsed)
                      THEN [ret |-> _ensure_shape(parsed),
                            log |-> searched \o <<Event("_ensure_shape", parsed)>>]
                      ELSE [ret |-> TailCall(raw_text), log |-> searched]
             ELSE [ret |-> TailCall(raw_text), log |-> loaded]

(***************************************************************************)
(* The values the calls are drawn from.                                    *)
(***************************************************************************)
\* the sequences over S of length at most n
SeqsUpTo(S, n) == UNION {[1..k -> S] : k \in 0..n}

RECURSIVE Merge(_, _)
\* the pairs of d, then those of e (dict(d, **e))
Merge(d, e) == IF e = <<>> THEN d ELSE Merge(DictSet(d, Head(e)[1], Head(e)[2]), Tail(e))

s_Go == PyStr(<<"G", "o">>)
s_Acme == PyStr(<<"A", "c", "m", "e">>)
s_xy == PyStr(<<"x", "y">>)
s_2020 == PyStr(<<"2", "0", "2", "0">>)
s_blank == PyStr(<<" ">>)
s_A == PyStr(<<"A">>)
s_B == PyStr(<<"B">>)
s_C == PyStr(<<"C">>)
s_Z == PyStr(<<"Z">>)
s_padded == PyStr(<<" ", "D", " ">>)
s_empty == PyStr(<<>>)

\* values that are no list: falsy ones, and truthy ones of every type
NonLists ==
    {PyNone, PyBool(FALSE), PyBool(TRUE), PyInt(0), PyInt(5), s_empty, s_xy,
     PyDict(<<>>), PyDict(<< <<k_company, s_Acme>> >>)}

SkillItems == {s_Go, PyInt(12), PyNone, PyBool(FALSE), PyDict(<< <<k_name, s_Go>> >>)}
ExpItems ==
    {PyDict(<< <<k_company, s_Acme>> >>),
     PyDict(<< <<k_role, PyNone>>, <<k_company, PyInt(5)>>, <<k_years, s_2020>>,
               <<k_name, s_xy>> >>),
     PyDict(<<>>), s_xy, PyInt(5)}
EduItems ==
    {PyDict(<< <<k_degree, s_xy>>, <<k_institution, s_Acme>> >>),
     PyDict(<< <<k_years, PyBool(TRUE)>> >>), PyNone, PyList(<<>>)}
TechValues ==
    {PyNone, s_Go, PyInt(5), PyDict(<< <<k_name, s_Go>> >>)}
        \cup {PyList(l) : l \in SeqsUpTo({s_Go, PyInt(5)}, MaxLen)}
ProjItems ==
    {PyDict(<< <<k_name, s_A>>, <<k_tech, PyList(<<s_Go, PyInt(5)>>)>> >>),
     PyDict(<< <<k_description, PyInt(5)>>, <<k_tech, s_Go>> >>),
     PyDict(<<>>), PyInt(5)}

SkillsValues == NonLists \cup {PyList(l) : l \in SeqsUpTo(SkillItems, MaxLen)}
ExperienceValues == NonLists \cup {PyList(l) : l \in SeqsUpTo(ExpItems, MaxLen)}
EducationValues == NonLists \cup {PyList(l) : l \in SeqsUpTo(EduItems, MaxLen)}
ProjectsValues ==
    NonLists \cup {PyList(l) : l \in SeqsUpTo(ProjItems, MaxLen)}
        \cup {PyList(<<PyDict(<< <<k_name, s_A>>, <<k_tech, t>> >>)>>) : t \in TechValues}

\* a record with the four fields filled
full_record ==
    PyDict(<< <<k_skills, PyList(<<s_Go, s_A>>)>>,
              <<k_experience,
                PyList(<<PyDict(<< <<k_company, s_Acme>>, <<k_role, s_xy>>,
                                   <<k_years, s_2020>> >>)>>)>>,
              <<k_education,
                PyList(<<PyDict(<< <<k_degree, s_xy>>, <<k_institution, s_Acme>>,
                                   <<k_years, s_empty>> >>)>>)>>,
              <<k_projects,
                PyList(<<PyDict(<< <<k_name, s_A>>, <<k_description, s_B>>,
                                   <<k_tech, PyList(<<s_Go>>)>> >>)>>)>> >>)

\* a mapping with one top-level field set
OneField ==
    {<< <<k_skills, v>> >> : v \in SkillsValues}
        \cup {<< <<k_experience, v>> >> : v \in ExperienceValues}
        \cup {<< <<k_education, v>> >> : v \in EducationValues}
        \cup {<< <<k_projects, v>> >> : v \in ProjectsValues}
\* the other keys of the mapping
OtherFields ==
    {<<>>,
     << <<k_skills, PyList(<<s_Go>>)>>, <<k_experience, s_xy>> >>,
     << <<k_projects, PyInt(5)>> >>,
     << <<k_education, PyList(<<PyDict(<< <<k_degree, s_xy>> >>)>>)>>,
        <<k_text, s_blank>> >>}
\* the mappings _ensure_shape is applied to
ShapeInputs ==
    {PyDict(Merge(e, d)) : d \in OneField \cup {<<>>}, e \in OtherFields}
        \cup {empty_record, full_record}

\* the values found under a text key
PayloadLeaves == {s_empty, s_blank, s_A, s_padded, PyInt(5), PyNone, PyBool(TRUE)}
PayloadDicts ==
    {PyDict(<< <<k, v>> >>) : k \in {k_text, k_content}, v \in {s_blank, s_A, PyInt(5)}}
        \cup {PyDict(<< <<k_content, s_blank>>, <<k_raw_text, s_C>> >>),
              PyDict(<< <<k_content, s_B>>, <<k_raw_text, s_C>> >>),
              PyDict(<< <<k_skills, s_A>> >>),
              PyDict(<< <<k_resume, PyDict(<< <<k_content, s_A>> >>)>> >>),
              PyDict(<< <<k_text, PyList(<<s_blank, s_A>>)>> >>)}
PayloadItems == {s_blank, s_A, PyDict(<< <<k_text, s_B>> >>), PyInt(5)}
PayloadLists ==
    {PyList(l) : l \in SeqsUpTo(PayloadItems, MaxLen)}
        \cup {PyList(<<PyList(<<s_C>>), s_A>>),
              PyList(<<PyDict(<< <<k_text, s_blank>> >>), s_padded>>),
              PyList(<<PyDict(<< <<k_skills, s_C>> >>)>>)}
PayloadValues == PayloadLeaves \cup PayloadDicts \cup PayloadLists
\* objects with text keys; the first pair of keys is written in the reverse
\* of the search order
PayloadObjects ==
    {PyDict(Merge(<< <<ks[1], v>> >>,
                  CASE more = "none" -> <<>>
                    [] more = "text" -> << <<ks[2], s_Z>> >>
                    [] more = "structured" ->
                         << <<k_experience,
                              PyList(<<PyDict(<< <<k_company, s_Acme>> >>)>>)>> >>)) :
        ks \in {<<k_content, k_raw_text>>, <<k_text, k_resume>>},
        v \in PayloadValues,
        more \in {"none", "text", "structured"}}
\* objects with structural keys, with neither, and the examples of the docs
StructuredObjects ==
    {PyDict(<< <<k, v>> >>) :
        k \in {k_skills, k_experience, k_education, k_projects},
        v \in NonLists \cup {PyList(<<>>), PyList(<<s_Go>>),
                             PyList(<<PyDict(<< <<k_company, s_Acme>> >>)>>),
                             PyList(<<PyDict(<< <<k_company, s_Acme>> >>), PyInt(5)>>)}}
        \cup {PyDict(<< <<k_skills, PyList(<<s_Go>>)>>, <<k_experience, s_xy>> >>),
              PyDict(<< <<k_resume, PyDict(<< <<k_content, s_padded>> >>)>> >>),
              full_record,
              PyDict(<<>>),
              PyDict(<< <<k_name, s_A>> >>),
              PyDict(<< <<k_company, s_Acme>> >>)}

\* texts that are no JSON object: prose, malformed JSON, JSON of another type
PlainTexts ==
    {<<>>, <<"s", "o", "m", "e", " ", "t", "e", "x", "t">>, <<"{", "\"", "s", "k", "i", "l", "l", "s", "\"", ":", " ", "[", "\"", "G", "o", "\"", "]">>, <<"{", "\"", "s", "k", "i", "l", "l", "s", "\"", ":", " ", "[", "\"", "G", "o", "\"", "]", ",", "}">>, <<"[", "\"", "G", "o", "\"", "]">>, <<"5">>, <<"\"", "t", "e", "x", "t", "\"">>, <<"n", "u", "l", "l">>, <<"t", "r", "u", "e">>,
     <<"{", "\"", "s", "k", "i", "l", "l", "s", "\"", ":", " ", "0", "5", "}">>}
\* the arguments of parse_resume: None, or a str
RawTexts ==
    {PyNone}
        \cup {PyStr(t) : t \in PlainTexts}
        \cup {PyStr(json_dumps(o)) : o \in PayloadObjects \cup StructuredObjects}
        \cup {PyStr(<<" ">> \o json_dumps(o) \o <<"\n">>) :
                 o \in {PyDict(<< <<k_skills, PyList(<<PyInt(12)>>)>> >>)}}

\* os.environ: each key not set (None), set to "" or set to a value
Environments ==
    [GEMINI_API_KEY : {PyNone, s_empty, s_A}, GOOGLE_API_KEY : {PyNone, s_empty, s_B}]
\* genai after the import of lines 12-15: the package, or None
GenaiPackages == {"module", "None"}

\* bodies of a model reply
ReplyBodies ==
    {<<>>, <<"s", "o", "m", "e", " ", "t", "e", "x", "t">>, <<"[", "\"", "G", "o", "\"", "]">>, <<"{", "\"", "s", "k", "i", "l", "l", "s", "\"", ":", " ", "[", "\"", "G", "o", "\"", "]">>, <<"{">>, <<"}", "{">>, <<"{", "}">>}
        \cup {json_dumps(o) :
                 o \in {PyDict(<< <<k_skills, PyList(<<s_Go>>)>> >>),
                        PyDict(<< <<k_experience, PyInt(5)>> >>),
                        PyDict(<< <<k_projects, PyBool(TRUE)>>,
                                  <<k_skills, PyList(<<s_Go>>)>> >>),
                        PyDict(<< <<k_experience,
                                    PyList(<<PyDict(<< <<k_company, s_Acme>> >>), s_xy>>)>>,
                                  <<k_name, s_A>> >>),
                        PyDict(<< <<k_text, s_A>> >>)}}
ProseChars == {"x", "{", "}"}
\* what genai does when parse_resume reaches it
Behaviours ==
    {Genai(k, <<>>) : k \in {"setup_raises", "generate_raises", "no_text", "text_raises"}}
        \cup {Genai("text", t) : t \in ReplyBodies}
        \cup {Genai("text", <<"o", "k", ":", " ", "{", "\"", "s", "k", "i", "l", "l", "s", "\"", ":", " ", "[", "\"", "G", "o", "\"", "]", "}", " ", "b", "y", "e">>)}
\* what genai does when _call_gemini is called on its own: the replies are
\* the bodies between two runs of prose
ProseBehaviours ==
    {Genai(k, <<>>) : k \in {"setup_raises", "generate_raises", "no_text", "text_raises"}}
        \cup {Genai("text", a \o t \o b) :
                 a \in SeqsUpTo(ProseChars, MaxProse), t \in ReplyBodies,
                 b \in SeqsUpTo(ProseChars, MaxProse)}
\* the arguments of _call_gemini called on its own
FreeTexts == {PyStr(<<"s", "o", "m", "e", " ", "t", "e", "x", "t">>), s_empty}

(***************************************************************************)
(* State: the process environment and the imported package, the call in    *)
(* progress, what genai did during it, how it ended, and the calls made.   *)
(***************************************************************************)
VARIABLES environ, genai, call, reply, ret, log
vars == <<environ, genai, call, reply, ret, log>>

NoCall == [fn |-> "none", arg |-> PyNone]
NoRet == [st |-> "none"]
\* genai was not reached during the call
NoReply == Genai("unused", <<>>)

\* the package is consulted when a credential is set and the import succeeded
GenaiReached == Truthy(api_key(environ)) /\ genai # "None"

\* ---- the tool server: parse_resume is called, runs, and its result is taken
Init ==
    /\ environ \in Environments
    /\ genai \in GenaiPackages
    /\ call = NoCall
    /\ reply = NoReply
    /\ ret = NoRet
    /\ log = <<>>

\* a client calls the tool
Invoke ==
    /\ call = NoCall
    /\ \E raw_text \in RawTexts : call' = [fn |-> "parse_resume", arg |-> raw_text]
    /\ UNCHANGED <<environ, genai, reply, ret, log>>

\* parse_resume runs from its first line to its return or its exception,
\* _call_gemini included when it is called; what genai does is drawn only
\* when the call reaches it
ParseResume ==
    /\ call.fn = "parse_resume"
    /\ ret = NoRet
    /\ \E own \in {parse_resume(call.arg)} :
           IF own.ret.st = "tail_call"
           THEN \E behaviour \in IF GenaiReached THEN Behaviours ELSE {NoReply} :
                    \E g \in {_call_gemini(own.ret.arg, environ, genai, behaviour)} :
                        /\ reply' = behaviour
                        /\ ret' = g.ret
                        /\ log' = own.log \o g.log
           ELSE /\ reply' = NoReply
                /\ ret' = own.ret
                /\ log' = own.log
    /\ UNCHANGED <<environ, genai, call>>

\* the result (or the error) is handed to the client; nothing is kept
Respond ==
    /\ ret # NoRet
    /\ call' = NoCall
    /\ reply' = NoReply
    /\ ret' = NoRet
    /\ log' = <<>>
    /\ UNCHANGED <<environ, genai>>

Next == Invoke \/ ParseResume \/ Respond
Spec == Init /\ [][Next]_vars

\* ---- _ensure_shape applied to a mapping
InitShape ==
    /\ environ = [GEMINI_API_KEY |-> PyNone, GOOGLE_API_KEY |-> PyNone]
    /\ genai = "None"
    /\ call \in {[fn |-> "_ensure_shape", arg |-> obj] : obj \in ShapeInputs}
    /\ reply = NoReply
    /\ ret = NoRet
    /\ log = <<>>

EnsureShape ==
    /\ call.fn = "_ensure_shape"
    /\ ret = NoRet
    /\ ret' = _ensure_shape(call.arg)
    /\ UNCHANGED <<environ, genai, call, reply, log>>

NextShape == EnsureShape
SpecShape == InitShape /\ [][NextShape]_vars

\* ---- _call_gemini applied to a text
InitGemini ==
    /\ environ \in Environments
    /\ genai \in GenaiPackages
    /\ call \in {[fn |-> "_call_gemini", arg |-> raw_text] : raw_text \in FreeTexts}
    /\ reply = NoReply
    /\ ret = NoRet
    /\ log = <<>>

CallGemini ==
    /\ call.fn = "_call_gemini"
    /\ ret = NoRet
    /\ \E behaviour \in IF GenaiReached THEN ProseBehaviours ELSE {NoReply} :
           \E g \in {_call_gemini(call.arg, environ, genai, behaviour)} :
               /\ reply' = behaviour
               /\ ret' = g.ret
               /\ log' = g.log
    /\ UNCHANGED <<environ, genai, call>>

NextGemini == CallGemini
SpecGemini == InitGemini /\ [][NextGemini]_vars

(***************************************************************************)
(* Properties.                                                             *)
(***************************************************************************)
\* the call of fn has ended
Done(fn) == call.fn = fn /\ ret # NoRet
\* how many times fn was entered during the call
Calls(fn) == Cardinality({i \in 1..Len(log) : log[i].fn = fn})
StructuralKeys == {k_skills, k_experience, k_education, k_projects}
\* the value of a key of a dict that has it
Field(obj, key) == get(obj, key, PyNone)
\* the sentinel of the degraded result
Degraded == Return(PyDict(<< <<k_missing, PyStr(k_gemini)>> >>))

\* the strs a depth-first scan meets, in the order it meets them: the keys
\* raw_text, text, resume, content in this order; under a key a str, the
\* scan of a dict, or the items of a list (strs and dicts) in list order
ScanOrder == <<k_raw_text, k_text, k_resume, k_content>>
RECURSIVE Candidates(_)
RECURSIVE KeyCandidates(_, _)
RECURSIVE ItemCandidates(_)
Candidates(obj) == KeyCandidates(obj, 1)
KeyCandidates(obj, n) ==
    IF n > Len(ScanOrder) THEN <<>>
    ELSE LET value == Field(obj, ScanOrder[n])
         IN  (CASE value.t = "str" -> <<value>>
                [] value.t = "dict" -> Candidates(value)
                [] value.t = "list" -> ItemCandidates(value.l)
                [] OTHER -> <<>>) \o KeyCandidates(obj, n + 1)
ItemCandidates(items) ==
    IF items = <<>> THEN <<>>
    ELSE (CASE Head(items).t = "str" -> <<Head(items)>>
            [] Head(items).t = "dict" -> Candidates(Head(items))
            [] OTHER -> <<>>) \o ItemCandidates(Tail(items))
NonEmpty(v) == v.s # <<>>
NonBlank(v) == \E i \in 1..Len(v.s) : v.s[i] \notin Whitespace
\* the first str of a sequence that passes the test, or None
FirstNonEmpty(strs) ==
    IF \E i \in 1..Len(strs) : NonEmpty(strs[i])
    THEN strs[CHOOSE i \in 1..Len(strs) :
                  NonEmpty(strs[i]) /\ \A j \in 1..(i - 1) : ~NonEmpty(strs[j])]
    ELSE PyNone
FirstNonBlank(strs) ==
    IF \E i \in 1..Len(strs) : NonBlank(strs[i])
    THEN strs[CHOOSE i \in 1..Len(strs) :
                  NonBlank(strs[i]) /\ \A j \in 1..(i - 1) : ~NonBlank(strs[j])]
    ELSE PyNone

\* the span of a reply from its first "{" to its last "}"
FirstOpen(text) ==
    CHOOSE i \in 1..Len(text) : text[i] = "{" /\ \A j \in 1..(i - 1) : text[j] # "{"
LastClose(text) ==
    CHOOSE i \in 1..Len(text) : text[i] = "}" /\ \A j \in (i + 1)..Len(text) : text[j] # "}"
HasSpan(text) ==
    /\ \E i \in 1..Len(text) : text[i] = "{"
    /\ \E i \in 1..Len(text) : text[i] = "}"
    /\ LastClose(text) > FirstOpen(text)
SpanData(text) == json_loads(SubSeq(text, FirstOpen(text), LastClose(text)))
SpanIsObject(text) == HasSpan(text) /\ SpanData(text).ok /\ SpanData(text).v.t = "dict"

\* C1: every call of parse_resume that returns, whatever the input and
\* whatever the backend did, returns an object that holds the four keys
\* skills, experience, education and projects, each with a list.
C1_FourLists ==
    Done("parse_resume") /\ ret.st = "return" =>
        \A key \in StructuralKeys :
            HasKey(ret.val, key) /\ Field(ret.val, key).t = "list"

\* C2: no call of parse_resume ends in a propagated error.
C2_NeverRaises == Done("parse_resume") => ret.st = "return"

\* C3: _ensure_shape returns on every mapping, and a top-level field that is
\* absent, null, falsy or no list comes out as the empty list.
C3_Total ==
    Done("_ensure_shape") =>
        /\ ret.st = "return"
        /\ \A key \in StructuralKeys :
               (\/ ~HasKey(call.arg, key)
                \/ Field(call.arg, key).t # "list"
                \/ Field(call.arg, key).l = <<>>)
                   => Field(ret.val, key) = PyList(<<>>)

\* the scalar sub-keys of the entries of a field
SubKeys(key) ==
    CASE key = k_experience -> <<k_company, k_role, k_years>>
      [] key = k_education -> <<k_degree, k_institution, k_years>>
      [] key = k_projects -> <<k_name, k_description>>
\* an entry of the output, built from the mapping `item` of the input
RebuiltFrom(key, item, entry) ==
    /\ entry.t = "dict"
    /\ [i \in 1..Len(entry.d) |-> entry.d[i][1]]
           = SubKeys(key) \o (IF key = k_projects THEN <<k_tech>> ELSE <<>>)
    /\ \A n \in 1..Len(SubKeys(key)) :
           LET sub == SubKeys(key)[n]
           IN  /\ Field(entry, sub).t = "str"
               /\ ~HasKey(item, sub) => Field(entry, sub) = PyStr(<<>>)
               /\ HasKey(item, sub) /\ Field(item, sub).t = "str"
                      => Field(entry, sub) = Field(item, sub)
    /\ key = k_projects =>
           LET tech == Field(entry, k_tech)
           IN  /\ tech.t = "list"
               /\ \A n \in 1..Len(tech.l) : tech.l[n].t = "str"
               /\ IF HasKey(item, k_tech) /\ Field(item, k_tech).t = "list"
                  THEN Len(tech.l) = Len(Field(item, k_tech).l)
                  ELSE tech.l = <<>>

\* C4: when _ensure_shape returns, experience, education and projects hold
\* the mappings of the input list in their order and nothing else, each
\* rebuilt with exactly its sub-keys; a scalar sub-field is a str, the empty
\* str when the input lacks it; tech is a list of strs, empty when the input
\* tech is no list.
C4_Rebuilt ==
    Done("_ensure_shape") /\ ret.st = "return" =>
        \A key \in {k_experience, k_education, k_projects} :
            HasKey(call.arg, key) /\ Field(call.arg, key).t = "list" =>
                LET items == Field(call.arg, key).l
                    out == Field(ret.val, key).l
                    maps == {i \in 1..Len(items) : items[i].t = "dict"}
                IN  /\ Len(out) = Cardinality(maps)
                    /\ \A i \in maps :
                           RebuiltFrom(key, items[i],
                                       out[Cardinality({j \in maps : j <= i})])
C4_Witness ==
    /\ Done("_ensure_shape") /\ ret.st = "return"
    /\ HasKey(call.arg, k_experience)
    /\ Field(call.arg, k_experience).t = "list"
    /\ LET items == Field(call.arg, k_experience).l
       IN  /\ Len(items) = 2
           /\ items[1].t # "dict"
           /\ items[2].t = "dict" /\ ~HasKey(items[2], k_role)
    /\ Len(Field(ret.val, k_experience).l) = 1

\* a record of the canonical shape
IsCanonical(obj) ==
    /\ obj.t = "dict"
    /\ [i \in 1..Len(obj.d) |-> obj.d[i][1]]
           = <<k_skills, k_experience, k_education, k_projects>>
    /\ \A key \in StructuralKeys : Field(obj, key).t = "list"
    /\ \A i \in 1..Len(Field(obj, k_skills).l) : Field(obj, k_skills).l[i].t = "str"
    /\ \A key \in {k_experience, k_education, k_projects} :
           \A i \in 1..Len(Field(obj, key).l) :
               LET entry == Field(obj, key).l[i]
               IN  /\ entry.t = "dict"
                   /\ RebuiltFrom(key, entry, entry)
                   /\ \A n \in 1..Len(SubKeys(key)) : HasKey(entry, SubKeys(key)[n])
                   /\ key = k_projects => HasKey(entry, k_tech)

\* C5: _ensure_shape is idempotent where it returns: normalizing its result
\* returns the result again, and a canonical record comes back equal.
C5_Idempotent ==
    Done("_ensure_shape") /\ ret.st = "return" =>
        /\ _ensure_shape(ret.val) = Return(ret.val)
        /\ IsCanonical(ret.val)
        /\ IsCanonical(call.arg) => ret.val = call.arg
C5_Witness ==
    /\ Done("_ensure_shape") /\ ret.st = "return"
    /\ ret.val # call.arg
    /\ HasKey(call.arg, k_skills)
    /\ Field(call.arg, k_skills).t = "list"
    /\ \E i \in 1..Len(Field(call.arg, k_skills).l) :
           Field(call.arg, k_skills).l[i].t = "int"

\* {"experience": [{"company": "Acme"}]}
AcmeOnly ==
    PyDict(<< <<k_experience, PyList(<<PyDict(<< <<k_company, s_Acme>> >>)>>)>> >>)
\* the input is a JSON object without text payload and with a structural key
IsStructured(raw_text) ==
    LET parsed == _safe_json_loads(raw_text)
    IN  /\ parsed.t = "dict"
        /\ FirstNonBlank(Candidates(parsed)) = PyNone
        /\ \E i \in 1..Len(parsed.d) : parsed.d[i][1] \in StructuralKeys

\* C6: for an input that is not null, parse_resume takes the structured path
\* (_ensure_shape alone, neither _call_gemini nor the backend) exactly when
\* the input is a JSON object without text payload that holds at least one of
\* the four structural keys, and calls _call_gemini in every other case; on
\* the structured path {"company": "Acme"} gets role and years "".
C6_Routing ==
    Done("parse_resume") /\ call.arg # PyNone =>
        /\ IF IsStructured(call.arg)
           THEN /\ Calls("_call_gemini") = 0
                /\ Calls("genai.configure") = 0
                /\ Calls("generate_content") = 0
                /\ reply = NoReply
                /\ Calls("_ensure_shape") = 1
                /\ ret = _ensure_shape(_safe_json_loads(call.arg))
           ELSE Calls("_call_gemini") = 1
        /\ call.arg = PyStr(json_dumps(AcmeOnly)) =>
               /\ ret.st = "return"
               /\ Field(ret.val, k_experience)
                      = PyList(<<PyDict(<< <<k_company, s_Acme>>,
                                           <<k_role, PyStr(<<>>)>>,
                                           <<k_years, PyStr(<<>>)>> >>)>>)
C6_Witness ==
    /\ Done("parse_resume")
    /\ call.arg = PyStr(json_dumps(AcmeOnly))
    /\ Calls("_call_gemini") = 0
    /\ ret.st = "return"

\* what the call handed to _call_gemini and to the backend
ForwardedExactly(payload) ==
    /\ Calls("_call_gemini") = 1
    /\ \E i \in 1..Len(log) : log[i] = Event("_call_gemini", payload)
    /\ \A i \in 1..Len(log) :
           log[i].fn = "generate_content"
               => log[i].arg = PyStr(input_prefix \o payload.s \o output_suffix)

\* C7 as stated: on a parsed JSON object _find_text_payload returns the first
\* non-empty str of the depth-first scan, None when there is none, and the
\* str found is what _call_gemini receives.
C7_FirstNonEmpty ==
    Done("parse_resume") /\ _safe_json_loads(call.arg).t = "dict" =>
        LET parsed == _safe_json_loads(call.arg)
            expected == FirstNonEmpty(Candidates(parsed))
        IN  /\ _find_text_payload(parsed) = expected
            /\ expected # PyNone => ForwardedExactly(expected)

\* C7 as amended: on a parsed JSON object _find_text_payload returns the
\* first str of the depth-first scan that is not empty once stripped of its
\* whitespace, None when there is none; the str found reaches _call_gemini
\* as it is, not stripped, and the backend inside "INPUT:\n...\n\nOUTPUT JSON:".
C7_FirstNonBlank ==
    Done("parse_resume") /\ _safe_json_loads(call.arg).t = "dict" =>
        LET parsed == _safe_json_loads(call.arg)
            expected == FirstNonBlank(Candidates(parsed))
        IN  /\ _find_text_payload(parsed) = expected
            /\ expected # PyNone => ForwardedExactly(expected)
            /\ expected = PyNone =>
                   \A i \in 1..Len(log) :
                       log[i].fn = "_call_gemini" => log[i].arg = call.arg
C7_Witness ==
    /\ Done("parse_resume")
    /\ _safe_json_loads(call.arg).t = "dict"
    /\ LET strs == Candidates(_safe_json_loads(call.arg))
       IN  /\ FirstNonBlank(strs) # PyNone
           /\ FirstNonBlank(strs) # FirstNonEmpty(strs)
           /\ FirstNonBlank(strs).s # strip(FirstNonBlank(strs).s)
    /\ Calls("generate_content") = 1

\* C8: parse_resume(None) returns the record of four empty lists and calls
\* neither the JSON parser nor _call_gemini nor the backend.
C8_NullInput ==
    Done("parse_resume") /\ call.arg = PyNone =>
        /\ ret = Return(PyDict(<< <<k_skills, PyList(<<>>)>>,
                                  <<k_experience, PyList(<<>>)>>,
                                  <<k_education, PyList(<<>>)>>,
                                  <<k_projects, PyList(<<>>)>> >>))
        /\ log = <<>>
        /\ reply = NoReply
C8_Witness == Done("parse_resume") /\ call.arg = PyNone

\* neither GEMINI_API_KEY nor GOOGLE_API_KEY is set to a non-empty value
NoCredential ==
    /\ environ.GEMINI_API_KEY \in {PyNone, PyStr(<<>>)}
    /\ environ.GOOGLE_API_KEY \in {PyNone, PyStr(<<>>)}

\* C9: _call_gemini never raises; without credential or without the package
\* it returns the degraded result and calls nothing of the package; when the
\* package raises, or the handling of its reply does, it returns the degraded
\* result.
C9_NeverPropagates ==
    Done("_call_gemini") =>
        /\ ret.st = "return"
        /\ NoCredential \/ genai = "None" =>
               /\ ret = Degraded
               /\ reply = NoReply
               /\ Calls("genai.configure") = 0
               /\ Calls("generate_content") = 0
        /\ ~NoCredential /\ genai # "None" => reply # NoReply
        /\ reply.kind \in {"setup_raises", "generate_raises", "text_raises"} =>
               ret = Degraded
        /\ reply.kind = "setup_raises" => Calls("generate_content") = 0
        /\ (/\ reply.kind = "text"
            /\ SpanIsObject(reply.text)
            /\ _ensure_shape(SpanData(reply.text).v).st = "raise") => ret = Degraded
C9_Witness ==
    /\ Done("_call_gemini")
    /\ reply.kind = "text"
    /\ SpanIsObject(reply.text)
    /\ _ensure_shape(SpanData(reply.text).v).st = "raise"
    /\ ret = Degraded

\* C10: the reply's span from its first "{" to its last "}", when it exists
\* and parses as a JSON object, is normalized and returned; otherwise the
\* degraded result is returned; the backend is called at most once.
C10_SpanNormalized ==
    Done("_call_gemini") /\ reply.kind = "text" =>
        /\ IF SpanIsObject(reply.text)
           THEN /\ ret.st = "return"
                /\ ret = _ensure_shape(SpanData(reply.text).v)
           ELSE ret = Degraded
        /\ Calls("generate_content") <= 1

====
